---- MODULE Spec2Model ----
(***************************************************************************)
(* Model of global-secrets-manager: the code generated by                  *)
(* #[derive(GlobalSecretsManager)] (src/src/lib.rs:136-157).  For a struct *)
(* `S` the macro emits                                                     *)
(*     pub static S: once_cell::sync::Lazy<S> = Lazy::new(|| S::get());    *)
(* plus S::get_secret() (the Secrets Manager query) and S::get() (dotenv,  *)
(* a fresh tokio runtime, block_on(get_secret), Box::leak, serde_json).    *)
(* Threads dereference the statics; every failure in get()/get_secret()    *)
(* is an unwrap() panic that unwinds through once_cell's guard.            *)
(***************************************************************************)
EXTENDS Integers, Sequences, FiniteSets, TLC

\* ------------------------------------------------------------------ bounds
NThreads == 2
MaxPathLen == 2
MaxIdentLen == 2
MaxFields == 2
MaxMembers == 3

Threads == 1..NThreads

\* ------------------------------------------------------- declared schemas
\* Two annotated structs: SampleSecrets {key1, key2} of the crate docs, declared
\* at the crate root, and my_secrets of examples/eg1.rs, here declared inside a
\* module so that its type name carries a longer path.  Names are abbreviated:
\* "Ss" in crate "e" for e::SampleSecrets, "ms" in module "s" for e::s::my_secrets.
Schemas == {"A", "B"}

DeclIdent(s) == IF s = "A" THEN <<"S", "s">> ELSE <<"m", "s">>

DeclPath(s) == IF s = "A" THEN << <<"e">> >> ELSE << <<"e">>, <<"s">> >>

Fields(s) == IF s = "A" THEN <<"key1", "key2">> ELSE <<"key1">>

\* ------------------------------------------------------------ key derivation
\* Strings are sequences of one-character strings.
Sep == <<":", ":">>

RECURSIVE JoinPath(_)
JoinPath(segs) ==
    IF segs = <<>> THEN <<>> ELSE Head(segs) \o Sep \o JoinPath(Tail(segs))

\* std::any::type_name::<Self>(): the module path and the identifier joined by "::".
type_name(path, ident) == JoinPath(path) \o ident

\* str::split("::"): the pieces between non-overlapping matches, left to right.
RECURSIVE SplitFrom(_, _)
SplitFrom(str, cur) ==
    IF str = <<>> THEN <<cur>>
    ELSE IF Len(str) >= 2 /\ SubSeq(str, 1, 2) = Sep
         THEN <<cur>> \o SplitFrom(SubSeq(str, 3, Len(str)), <<>>)
         ELSE SplitFrom(Tail(str), Append(cur, Head(str)))

split(str) == SplitFrom(str, <<>>)

last(pieces) == pieces[Len(pieces)]

secret_id_unsplit(path, ident) == type_name(path, ident)

\* .secret_id(type_name::<Self>().split("::").last().unwrap())
secret_id(path, ident) == last(split(type_name(path, ident)))

SchemaKey(s) == secret_id(DeclPath(s), DeclIdent(s))

\* ------------------------------------------------------------ store payloads
None == <<>>
Some(x) == <<x>>

JStr(v) == [t |-> "string", v |-> v]
JNum(v) == [t |-> "number", v |-> v]

\* JSON objects as sequences of <<key, value>> members.
Payloads ==
    { << <<"key1", JStr("value1")>>, <<"key2", JStr("value2")>> >>,
      << <<"key1", JStr("value2")>>, <<"key2", JStr("value1")>> >>,
      << <<"key1", JStr("value1")>> >>,
      << <<"key1", JStr("value1")>>, <<"key2", JStr("value2")>>, <<"extra", JStr("value1")>> >>,
      << <<"key1", JStr("value1")>>, <<"key2", JNum("7")>> >> }

StoreErrors == {"NotFound", "TransportError", "AuthError"}

\* What client.get_secret_value().secret_id(key).send().await can yield: an SdkError,
\* or a response whose secret_string is None (a binary secret) or Some(text).
Responses ==
    [err : StoreErrors, secret_string : {None}]
      \cup [err : {"none"}, secret_string : {None} \cup {Some(p) : p \in Payloads}]

\* ------------------------------------------------------------------ parsing
\* What a panicking access dies with: the kind of the unwrap()/panic!() that fired.
NoFailure == [kind |-> "none", detail |-> "-", field |-> "-"]
Failure(k) == [kind |-> k, detail |-> "-", field |-> "-"]
ParseError(d, f) == [kind |-> "ParseError", detail |-> d, field |-> f]

InSeq(x, seq) == \E i \in 1..Len(seq) : seq[i] = x

\* The derived Deserialize visitor: members in payload order; unknown keys are
\* skipped, a repeated known key and a non-string value are errors.
\* A visitor that reads the object as a sequence, binding values to the fields by
\* position and not by key.
RECURSIVE VisitSeq(_, _, _)
VisitSeq(members, fields, acc) ==
    IF members = <<>> \/ fields = <<>> THEN [ok |-> TRUE, acc |-> acc, err |-> NoFailure]
    ELSE IF Head(members)[2].t # "string"
         THEN [ok |-> FALSE, acc |-> acc, err |-> ParseError("invalid type", "-")]
    ELSE VisitSeq(Tail(members), Tail(fields), (Head(fields) :> Head(members)[2].v) @@ acc)

\* The visitor of a struct marked #[serde(deny_unknown_fields)].
RECURSIVE VisitMapDenyUnknown(_, _, _)
VisitMapDenyUnknown(members, fields, acc) ==
    IF members = <<>> THEN [ok |-> TRUE, acc |-> acc, err |-> NoFailure]
    ELSE LET k == Head(members)[1]
             v == Head(members)[2]
         IN  IF ~InSeq(k, fields)
                  THEN [ok |-> FALSE, acc |-> acc, err |-> ParseError("unknown field", k)]
             ELSE IF k \in DOMAIN acc
                  THEN [ok |-> FALSE, acc |-> acc, err |-> ParseError("duplicate field", k)]
             ELSE IF v.t # "string"
                  THEN [ok |-> FALSE, acc |-> acc, err |-> ParseError("invalid type", "-")]
             ELSE VisitMapDenyUnknown(Tail(members), fields, (k :> v.v) @@ acc)

\* The missing-field step of a struct whose fields are all #[serde(default)].
MissingDefaulted(fields, acc) == None

RECURSIVE VisitMap(_, _, _)
VisitMap(members, fields, acc) ==
    IF members = <<>> THEN [ok |-> TRUE, acc |-> acc, err |-> NoFailure]
    ELSE LET k == Head(members)[1]
             v == Head(members)[2]
         IN  IF ~InSeq(k, fields) THEN VisitMap(Tail(members), fields, acc)
             ELSE IF k \in DOMAIN acc
                  THEN [ok |-> FALSE, acc |-> acc, err |-> ParseError("duplicate field", k)]
             ELSE IF v.t # "string"
                  THEN [ok |-> FALSE, acc |-> acc, err |-> ParseError("invalid type", "-")]
             ELSE VisitMap(Tail(members), fields, (k :> v.v) @@ acc)

RECURSIVE FirstMissing(_, _)
FirstMissing(fields, acc) ==
    IF fields = <<>> THEN None
    ELSE IF Head(fields) \notin DOMAIN acc THEN Some(Head(fields))
    ELSE FirstMissing(Tail(fields), acc)

EmptyMap == [x \in {} |-> "-"]

\* serde_json::from_slice::<Self>(bytes)
from_slice(payload, fields) ==
    LET r == VisitMap(payload, fields, EmptyMap)
    IN  IF ~r.ok THEN [ok |-> FALSE, value |-> EmptyMap, err |-> r.err]
        ELSE LET m == FirstMissing(fields, r.acc)
             IN  IF m # None
                 THEN [ok |-> FALSE, value |-> EmptyMap,
                       err |-> ParseError("missing field", m[1])]
                 ELSE [ok |-> TRUE, value |-> r.acc, err |-> NoFailure]

\* ------------------------------------------------------------------- state
VARIABLES
    state,        \* once_cell state of each cell: INCOMPLETE, RUNNING, COMPLETE
    init,         \* Lazy.init: TRUE while the closure || S::get() is still Some
    value,        \* the cell's slot: None or Some(bundle)
    pc,           \* each thread's position in its current access
    cur,          \* the schema whose static the thread is dereferencing
    ctx,          \* "thread": plain thread; "async": inside a tokio runtime
    rt_str,       \* get(): the resolver's raw payload, None before the fetch
    result,       \* what the thread's last dereference returned
    failure,      \* what the thread's dereference panicked with
    fetchCount,   \* per schema: get_secret_value().send() calls issued
    parseCount,   \* per schema: serde_json::from_slice calls
    queried,      \* per schema: the secret ids passed to the store
    entered,      \* per schema: transitions of the static into RUNNING
    completed,    \* per schema: transitions of the static into COMPLETE
    dotenv,       \* per schema: outcome of dotenvy::dotenv(): "-", "ok", "err"
    leaked,       \* per schema: raw payloads given to Box::leak
    trace,        \* per schema: the steps of get() in the order they ran
    fast,         \* whether the thread's last dereference returned on the fast path
    touched,      \* the schemas whose static has been dereferenced at least once
    declPath,     \* key derivation: the module path a struct is declared under
    declIdent,    \* key derivation: the struct's identifier
    derived,      \* key derivation: None, or Some(secret id computed for it)
    dKind,        \* declaration: the kind of item the derive is applied to
    dFields,      \* declaration: its field names, in declaration order
    dStage,       \* declaration: declared, expanded, built, resolved or rejected
    dError,       \* declaration: what rejected it
    dPayload,     \* declaration: the payload its first access received
    dOutcome      \* declaration: what serde_json::from_slice made of that payload

mainVars == <<state, init, value, pc, cur, ctx, rt_str, result, failure, fast, fetchCount,
              parseCount, queried, entered, completed, dotenv, leaked, trace, touched>>
keyVars == <<declPath, declIdent, derived>>
declVars == <<dKind, dFields, dStage, dError, dPayload, dOutcome>>
pureVars == <<keyVars, declVars>>
vars == <<mainVars, pureVars>>

cellVars == <<state, init, value>>
histVars == <<fetchCount, parseCount, queried, entered, completed, dotenv, leaked, trace>>

\* The owner 0 is the process: `pub static` is one cell per schema for all threads.
Owners == {0} \cup Threads
Cells == Schemas \X Owners

Contexts == {"thread", "async"}

\* pub static #ident: Lazy<#ident>: every thread reaches the same cell.
CellOfThreadLocal(t, s) == <<s, t>>

\* One static shared by all annotated structs.
CellOfShared(t, s) == <<"A", 0>>

CellOf(t, s) == <<s, 0>>

MyCell(t) == CellOf(t, cur[t])

\* A static resolved when the process starts, not on first use.
InitMainEager ==
    /\ state = [c \in Cells |-> "COMPLETE"]
    /\ init = [c \in Cells |-> FALSE]
    /\ value = [c \in Cells |-> Some([f \in {Fields(c[1])[i] : i \in 1..Len(Fields(c[1]))} |-> "value1"])]
    /\ pc = [t \in Threads |-> "idle"]
    /\ cur = [t \in Threads |-> "A"]
    /\ ctx = [t \in Threads |-> "thread"]
    /\ rt_str = [t \in Threads |-> None]
    /\ result = [t \in Threads |-> None]
    /\ failure = [t \in Threads |-> NoFailure]
    /\ fast = [t \in Threads |-> FALSE]
    /\ fetchCount = [s \in Schemas |-> 1]
    /\ parseCount = [s \in Schemas |-> 1]
    /\ queried = [s \in Schemas |-> {SchemaKey(s)}]
    /\ entered = [s \in Schemas |-> 1]
    /\ completed = [s \in Schemas |-> 1]
    /\ dotenv = [s \in Schemas |-> "ok"]
    /\ leaked = [s \in Schemas |-> {}]
    /\ trace = [s \in Schemas |-> <<"dotenv", "config", "query", "parse", "store">>]
    /\ touched = {}

\* Lazy::new(|| S::get()): nothing runs at construction.
InitMain ==
    /\ state = [c \in Cells |-> "INCOMPLETE"]
    /\ init = [c \in Cells |-> TRUE]
    /\ value = [c \in Cells |-> None]
    /\ pc = [t \in Threads |-> "idle"]
    /\ cur = [t \in Threads |-> "A"]
    /\ ctx = [t \in Threads |-> "thread"]
    /\ rt_str = [t \in Threads |-> None]
    /\ result = [t \in Threads |-> None]
    /\ failure = [t \in Threads |-> NoFailure]
    /\ fast = [t \in Threads |-> FALSE]
    /\ fetchCount = [s \in Schemas |-> 0]
    /\ parseCount = [s \in Schemas |-> 0]
    /\ queried = [s \in Schemas |-> {}]
    /\ entered = [s \in Schemas |-> 0]
    /\ completed = [s \in Schemas |-> 0]
    /\ dotenv = [s \in Schemas |-> "-"]
    /\ leaked = [s \in Schemas |-> {}]
    /\ trace = [s \in Schemas |-> <<>>]
    /\ touched = {}

InitKey ==
    /\ declPath = DeclPath("A")
    /\ declIdent = DeclIdent("A")
    /\ derived = None

InitDecl ==
    /\ dKind = "struct"
    /\ dFields = Fields("A")
    /\ dStage = "declared"
    /\ dError = "none"
    /\ dPayload = None
    /\ dOutcome = None

Init == InitMain /\ InitKey /\ InitDecl

\* ------------------------------------------------------------ once_cell
\* OnceCell::get(): the fast path of get_or_init.
is_initialized(st) == st = "COMPLETE"

\* initialize_or_wait: a caller that finds RUNNING parks until the state changes.
NeverWait(st) == FALSE

must_wait(st) == st = "RUNNING"

\* initialize_or_wait: only INCOMPLETE is claimed (compare_exchange to RUNNING).
ClaimUnlessRunning(st) == st # "RUNNING"

can_claim(st) == st = "INCOMPLETE"

\* Guard::drop: COMPLETE when the closure returned, INCOMPLETE when it unwound.
GuardDropAlwaysComplete(ok) == "COMPLETE"

\* A guard that is forgotten on unwinding: the state stays RUNNING.
GuardDropOnSuccessOnly(ok) == IF ok THEN "COMPLETE" ELSE "RUNNING"

guard_drop(ok) == IF ok THEN "COMPLETE" ELSE "INCOMPLETE"

\* Lazy::force: this.init.take() leaves None behind.
TakeKeepsInit(f) == f

init_take(f) == FALSE

\* A panic inside the closure: the thread dies with `f`, the guard resets the cell.
\* A failure that is swallowed (unwrap_or_default): the caller goes on to the parse
\* with an empty payload.
PanicSwallowed(t, f) ==
    /\ pc' = [pc EXCEPT ![t] = "parse"]
    /\ failure' = [failure EXCEPT ![t] = f]
    /\ UNCHANGED state
    /\ rt_str' = [rt_str EXCEPT ![t] = Some(<<>>)]

Panic(t, f) ==
    /\ pc' = [pc EXCEPT ![t] = "panicked"]
    /\ failure' = [failure EXCEPT ![t] = f]
    /\ state' = [state EXCEPT ![MyCell(t)] = guard_drop(FALSE)]
    /\ rt_str' = [rt_str EXCEPT ![t] = None]

Step(s, name) == trace' = [trace EXCEPT ![s] = Append(@, name)]

\* ------------------------------------------------------------------ actions
\* &*S (Deref -> Lazy::force -> get_or_init): return the slot when COMPLETE.
Deref(t, s, c) ==
    /\ UNCHANGED pureVars
    /\ pc[t] \in {"idle", "returned"}
    /\ cur' = [cur EXCEPT ![t] = s]
    /\ ctx' = [ctx EXCEPT ![t] = c]
    /\ fast' = [fast EXCEPT ![t] = is_initialized(state[CellOf(t, s)])]
    /\ IF is_initialized(state[CellOf(t, s)])
       THEN /\ pc' = [pc EXCEPT ![t] = "returned"]
            /\ result' = [result EXCEPT ![t] = value[CellOf(t, s)]]
       ELSE /\ pc' = [pc EXCEPT ![t] = "initialize"]
            /\ result' = [result EXCEPT ![t] = None]
    /\ touched' = touched \cup {s}
    /\ UNCHANGED <<cellVars, rt_str, failure, histVars>>

\* initialize_or_wait: blocked while RUNNING; claims INCOMPLETE; returns on COMPLETE.
Initialize(t) ==
    /\ UNCHANGED pureVars
    /\ pc[t] = "initialize"
    /\ ~must_wait(state[MyCell(t)])
    /\ IF can_claim(state[MyCell(t)])
       THEN /\ state' = [state EXCEPT ![MyCell(t)] = "RUNNING"]
            /\ entered' = [entered EXCEPT ![cur[t]] = @ + 1]
            /\ pc' = [pc EXCEPT ![t] = "force"]
            /\ UNCHANGED result
       ELSE /\ pc' = [pc EXCEPT ![t] = "returned"]
            /\ result' = [result EXCEPT ![t] = value[MyCell(t)]]
            /\ UNCHANGED <<state, entered>>
    /\ UNCHANGED <<init, value, cur, ctx, rt_str, failure, fast,
                   fetchCount, parseCount, queried, completed, dotenv, leaked, trace, touched>>

\* Lazy::force's closure: match this.init.take() { Some(f) => f(), None => panic! }.
LazyForce(t) ==
    /\ UNCHANGED pureVars
    /\ pc[t] = "force"
    /\ init' = [init EXCEPT ![MyCell(t)] = init_take(@)]
    /\ IF init[MyCell(t)]
       THEN /\ pc' = [pc EXCEPT ![t] = "get"]
            /\ UNCHANGED <<state, failure, rt_str>>
       ELSE Panic(t, Failure("Poisoned"))
    /\ UNCHANGED <<value, cur, ctx, result, fast, histVars, touched>>

\* dotenvy::dotenv().unwrap(): a missing or unreadable .env file is a panic.
dotenv_unwrap(env) == env = "err"

\* dotenvy::dotenv().ok(): the Result becomes an Option and is dropped.
dotenv_panics(env) == FALSE

\* get(): dotenvy::dotenv().ok(), then Runtime::new().unwrap().
get_dotenv_runtime(t) ==
    /\ UNCHANGED pureVars
    /\ pc[t] = "get"
    /\ \E env \in {"ok", "err"}, built \in BOOLEAN :
        /\ dotenv' = [dotenv EXCEPT ![cur[t]] = env]
        /\ IF dotenv_panics(env)
           THEN /\ Panic(t, Failure("DotenvError"))
                /\ Step(cur[t], "dotenv")
           ELSE IF built
           THEN /\ pc' = [pc EXCEPT ![t] = "block_on"]
                /\ Step(cur[t], "dotenv")
                /\ UNCHANGED <<state, failure, rt_str>>
           ELSE /\ Panic(t, Failure("RuntimeBuild"))
                /\ Step(cur[t], "dotenv")
    /\ UNCHANGED <<init, value, cur, ctx, result, fast,
                   fetchCount, parseCount, queried, entered, completed, leaked, touched>>

\* rt.block_on(..) panics when the calling thread already drives a runtime.
block_on_enters(c) == c = "thread"

\* rt.block_on(Self::get_secret()) up to aws_config::from_env().load().await.
get_block_on(t) ==
    /\ UNCHANGED pureVars
    /\ pc[t] = "block_on"
    /\ IF block_on_enters(ctx[t])
       THEN /\ pc' = [pc EXCEPT ![t] = "send"]
            /\ Step(cur[t], "config")
            /\ UNCHANGED <<state, failure, rt_str>>
       ELSE /\ Panic(t, Failure("NestedRuntime"))
            /\ UNCHANGED trace
    /\ UNCHANGED <<init, value, cur, ctx, result, fast,
                   fetchCount, parseCount, queried, entered, completed, dotenv, leaked, touched>>

\* get_secret(): send().await.unwrap(), then resp.secret_string.unwrap().
get_secret_send(t) ==
    /\ UNCHANGED pureVars
    /\ pc[t] = "send"
    /\ fetchCount' = [fetchCount EXCEPT ![cur[t]] = @ + 1]
    /\ queried' = [queried EXCEPT ![cur[t]] = @ \cup {SchemaKey(cur[t])}]
    /\ Step(cur[t], "query")
    /\ \E resp \in Responses :
        IF resp.err # "none" THEN Panic(t, Failure(resp.err))
        ELSE IF resp.secret_string = None THEN Panic(t, Failure("NoSecretString"))
        ELSE /\ rt_str' = [rt_str EXCEPT ![t] = resp.secret_string]
             /\ pc' = [pc EXCEPT ![t] = "parse"]
             /\ UNCHANGED <<state, failure>>
    /\ UNCHANGED <<init, value, cur, ctx, result, fast,
                   parseCount, entered, completed, dotenv, leaked, touched>>

\* get(): Box::leak the bytes, serde_json::from_slice(..).unwrap(); on return the
\* cell stores the value and the guard publishes COMPLETE.
get_parse(t) ==
    /\ UNCHANGED pureVars
    /\ pc[t] = "parse"
    /\ parseCount' = [parseCount EXCEPT ![cur[t]] = @ + 1]
    /\ leaked' = [leaked EXCEPT ![cur[t]] = @ \cup {rt_str[t][1]}]
    /\ LET r == from_slice(rt_str[t][1], Fields(cur[t]))
       IN  IF r.ok
           THEN /\ value' = [value EXCEPT ![MyCell(t)] = Some(r.value)]
                /\ state' = [state EXCEPT ![MyCell(t)] = guard_drop(TRUE)]
                /\ completed' = [completed EXCEPT ![cur[t]] = @ + 1]
                /\ result' = [result EXCEPT ![t] = Some(r.value)]
                /\ pc' = [pc EXCEPT ![t] = "returned"]
                /\ rt_str' = [rt_str EXCEPT ![t] = None]
                /\ trace' = [trace EXCEPT ![cur[t]] = @ \o <<"parse", "store">>]
                /\ UNCHANGED failure
           ELSE /\ Panic(t, r.err)
                /\ Step(cur[t], "parse")
                /\ UNCHANGED <<value, completed, result>>
    /\ UNCHANGED <<init, cur, ctx, fast, fetchCount, queried, entered, dotenv, touched>>

Next ==
    \/ \E t \in Threads, s \in Schemas, c \in Contexts : Deref(t, s, c)
    \/ \E t \in Threads : Initialize(t)
    \/ \E t \in Threads : LazyForce(t)
    \/ \E t \in Threads : get_dotenv_runtime(t)
    \/ \E t \in Threads : get_block_on(t)
    \/ \E t \in Threads : get_secret_send(t)
    \/ \E t \in Threads : get_parse(t)

Spec == Init /\ [][Next]_vars

\* The steps a caller takes by itself once its access has begun; a caller parked
\* behind a RUNNING cell has none.
Internal(t) ==
    \/ Initialize(t)
    \/ LazyForce(t)
    \/ get_dotenv_runtime(t)
    \/ get_block_on(t)
    \/ get_secret_send(t)
    \/ get_parse(t)

\* Every thread that can take a step of its access takes one in the end: threads are
\* scheduled, the store call returns, and the waiters of a cell are woken when its
\* guard is dropped.  No caller is bound to begin an access.
FairSpec == Spec /\ \A t \in Threads : WF_vars(Internal(t))

\* ------------------------------------------------- key derivation on its own
\* Identifiers over a small alphabet with both cases; paths of such segments.
IdentChars == {"a", "A", "_"}

SeqsUpTo(S, n) == UNION {[1..k -> S] : k \in 0..n}

Idents == SeqsUpTo(IdentChars, MaxIdentLen) \ {<<>>}

Segments == {<<"a">>, <<"A", "a">>}

Paths == SeqsUpTo(Segments, MaxPathLen)

KeyInit ==
    /\ InitMain
    /\ InitDecl
    /\ declPath \in Paths
    /\ declIdent \in Idents
    /\ derived = None

\* get_secret() computing the argument of .secret_id(..) for the declared struct.
DeriveKey ==
    /\ derived = None
    /\ derived' = Some(secret_id(declPath, declIdent))
    /\ UNCHANGED <<mainVars, declPath, declIdent, declVars>>

KeyNext == DeriveKey

KeySpec == KeyInit /\ [][KeyNext]_vars

\* ------------------------------------------- one declaration, start to end
\* What the derive can be applied to: a struct with named fields, a tuple struct,
\* a unit struct, an enum.
Kinds == {"struct", "tuple", "unit", "enum"}

FieldNames == {"key1", "key2"}

FieldLists == SeqsUpTo(FieldNames, MaxFields)

PayloadKeys == FieldNames \cup {"extra"}

JsonValues == {JStr("value1"), JStr("value2"), JNum("7")}

Members == PayloadKeys \X JsonValues

AllPayloads == SeqsUpTo(Members, MaxMembers)

HasDuplicate(seq) == \E i, j \in 1..Len(seq) : i < j /\ seq[i] = seq[j]

SchemaInit ==
    /\ InitMain
    /\ InitKey
    /\ dKind \in Kinds
    /\ dFields \in FieldLists
    /\ dKind \in {"unit", "enum"} => dFields = <<>>
    /\ dStage = "declared"
    /\ dError = "none"
    /\ dPayload = None
    /\ dOutcome = None

\* GlobalSecretsManager_derive: panics on anything but a struct and on a field
\* without a name; the field names are collected and not examined further.
derive_panics(kind, fields) ==
    \/ kind = "enum"
    \/ kind = "tuple" /\ fields # <<>>

DeriveExpand ==
    /\ dStage = "declared"
    /\ IF derive_panics(dKind, dFields)
       THEN dStage' = "rejected" /\ dError' = "derive panicked"
       ELSE dStage' = "expanded" /\ UNCHANGED dError
    /\ UNCHANGED <<mainVars, keyVars, dKind, dFields, dPayload, dOutcome>>

\* A compiler that lets a struct repeat a field name.
RejectsNameClashOnly(kind, fields) == kind \in {"unit", "tuple"}

\* The compiler on the item and the expansion: a repeated field name is an error,
\* and so is `pub static #ident` beside a unit or tuple struct, whose name is
\* already a value.  Nothing counts the fields.
compile_rejects(kind, fields) ==
    \/ kind \in {"unit", "tuple"}
    \/ kind = "struct" /\ HasDuplicate(fields)

Compile ==
    /\ dStage = "expanded"
    /\ IF compile_rejects(dKind, dFields)
       THEN /\ dStage' = "rejected"
            /\ dError' = IF dKind = "struct" THEN "field is already declared"
                                            ELSE "defined multiple times"
       ELSE dStage' = "built" /\ UNCHANGED dError
    /\ UNCHANGED <<mainVars, keyVars, dKind, dFields, dPayload, dOutcome>>

\* The first dereference of the generated static with the store answering `p`:
\* the store is queried and get() parses the payload into the struct.
FirstAccess(p) ==
    /\ dStage = "built"
    /\ dStage' = "resolved"
    /\ dPayload' = Some(p)
    /\ dOutcome' = Some(from_slice(p, dFields))
    /\ UNCHANGED <<mainVars, keyVars, dKind, dFields, dError>>

SchemaNext ==
    \/ DeriveExpand
    \/ Compile
    \/ \E p \in AllPayloads : FirstAccess(p)

SchemaSpec == SchemaInit /\ [][SchemaNext]_vars

\* ============================================================== properties
Static(s) == <<s, 0>>

ResolverPcs == {"force", "get", "block_on", "send", "parse"}

On(s, where) == {t \in Threads : cur[t] = s /\ pc[t] \in where}

Returned(s) == On(s, {"returned"})

Panicked(s) == On(s, {"panicked"})

\* A caller parked in initialize_or_wait behind another caller's resolution.
Waiting(t) == pc[t] = "initialize" /\ state[Static(cur[t])] = "RUNNING"

\* ----------------------------------------------------------------------- C1
\* C1: however many threads race on their first access to a schema's handle, the
\* store query is issued at most once for that schema, and exactly once as soon
\* as any access to it has returned.
C1_ExactlyOneFetch ==
    \A s \in Schemas :
        /\ fetchCount[s] <= 1
        /\ Returned(s) # {} => fetchCount[s] = 1

\* One caller has returned from the resolution while another, which began its
\* first access before the resolution finished, is still inside initialize_or_wait.
C1_Witness ==
    \E t1, t2 \in Threads :
        /\ t1 # t2
        /\ cur[t1] = "A" /\ pc[t1] = "returned"
        /\ cur[t2] = "A" /\ pc[t2] = "initialize"
        /\ fetchCount["A"] = 1

\* ----------------------------------------------------------------------- C2
\* C2: every access that returns hands out the one stored bundle: all callers that
\* have returned from a schema hold the same value as the slot, and the slot never
\* changes once it holds a bundle.
C2_AllReturnedEqual ==
    \A s \in Schemas : \A t1 \in Returned(s) :
        /\ result[t1] # None
        /\ result[t1] = value[Static(s)]
        /\ \A t2 \in Returned(s) : result[t1] = result[t2]

C2_SlotFrozen ==
    \A s \in Schemas : value[Static(s)] # None => value'[Static(s)] = value[Static(s)]

\* C2: both parts, in every reachable state and over every step.
C2_SameBundle == [](C2_AllReturnedEqual) /\ [][C2_SlotFrozen]_vars

\* The resolver and a second caller both hold the bundle of schema A.
C2_Witness ==
    \E t1, t2 \in Threads :
        /\ t1 # t2
        /\ {t1, t2} \subseteq Returned("A")
        /\ result[t1] = Some([key1 |-> "value2", key2 |-> "value1"])
        /\ result[t2] = result[t1]

\* ----------------------------------------------------------------------- C3
\* C3: once a schema has resolved successfully, every further access returns the
\* stored bundle at once, no step queries the store or parses again, and the fetch
\* and parse counts stay at one.
C3_DerefOfResolved(t) ==
    /\ pc[t] \in {"idle", "returned"}
    /\ <<pc[t], cur[t], ctx[t], result[t]>>' # <<pc[t], cur[t], ctx[t], result[t]>>
    /\ completed[cur'[t]] >= 1

C3_Step ==
    /\ \A s \in Schemas :
          completed[s] >= 1 =>
              /\ fetchCount[s] = 1 /\ fetchCount'[s] = 1
              /\ parseCount[s] = 1 /\ parseCount'[s] = 1
              /\ \A t \in Threads : cur'[t] = s => pc'[t] \notin ResolverPcs \cup {"panicked"}
    /\ \A t \in Threads :
          C3_DerefOfResolved(t) =>
              /\ pc'[t] = "returned"
              /\ result'[t] = value[Static(cur'[t])]
              /\ result'[t] # None

\* C3: the step property above holds of every step.
C3_NoRefetchAfterDone == [][C3_Step]_vars

\* After schema B resolved, a dereference made from inside an async runtime took
\* the fast path and holds the same bundle as the resolver, with one fetch and parse.
C3_Witness ==
    \E t \in Threads :
        /\ pc[t] = "returned" /\ cur[t] = "B" /\ ctx[t] = "async" /\ fast[t]
        /\ result[t] = Some([key1 |-> "value1"])
        /\ dotenv["B"] = "err"
        /\ fetchCount["B"] = 1 /\ parseCount["B"] = 1
        /\ \E u \in Threads : u # t /\ pc[u] = "returned" /\ cur[u] = "B"

\* ----------------------------------------------------------------------- C4
\* C4: a schema whose handle has never been dereferenced has issued no store query
\* and its cell is untouched; declaring it and starting the process fetch nothing.
C4_NoFetchBeforeAccess ==
    \A s \in Schemas :
        s \notin touched =>
            /\ fetchCount[s] = 0
            /\ parseCount[s] = 0
            /\ state[Static(s)] = "INCOMPLETE"
            /\ value[Static(s)] = None

\* Schema B has been resolved while schema A, declared beside it, was never touched.
C4_Witness ==
    /\ touched = {"B"}
    /\ fetchCount["B"] = 1
    /\ state[Static("B")] = "COMPLETE"
    /\ fetchCount["A"] = 0

\* ----------------------------------------------------------------------- C5
\* C5: once an access to a schema has failed, the fetch count of that schema never
\* changes again: neither the callers that were waiting nor later callers query.
C5_Step ==
    \A s \in Schemas : Panicked(s) # {} => fetchCount'[s] = fetchCount[s]

\* C5: no step after a failure changes the schema's fetch count.
C5_NoRetryAfterFailure == [][C5_Step]_vars

\* The resolver of A died on a store miss and a later caller has come and gone
\* (it died too) with the fetch count still one.
C5_Witness ==
    \E t1, t2 \in Threads :
        /\ t1 # t2
        /\ {t1, t2} \subseteq Panicked("A")
        /\ failure[t1].kind = "NotFound"
        /\ fetchCount["A"] = 1

Rank(st) == CASE st = "INCOMPLETE" -> 0 [] st = "RUNNING" -> 1 [] st = "COMPLETE" -> 2

\* C7 as stated: the state of every schema only moves forward, and it is set to
\* RUNNING at most once and to COMPLETE at most once, also when resolution fails.
C7_ForwardStep ==
    \A s \in Schemas : Rank(state'[Static(s)]) >= Rank(state[Static(s)])

C7_AmendedStep ==
    \A s \in Schemas :
        LET a == state[Static(s)]
            b == state'[Static(s)]
        IN  /\ a = "COMPLETE" => b = "COMPLETE"
            /\ a = "INCOMPLETE" => b \in {"INCOMPLETE", "RUNNING"}
            /\ (a = "RUNNING" /\ b = "INCOMPLETE") <=>
                   \E t \in On(s, ResolverPcs) : pc'[t] = "panicked"

C7_AmendedCounts ==
    \A s \in Schemas :
        /\ completed[s] <= 1
        /\ entered[s] = Cardinality(On(s, ResolverPcs)) + Cardinality(Panicked(s)) + completed[s]
        /\ Panicked(s) = {} => entered[s] <= 1
        /\ Panicked(s) # {} => completed[s] = 0 /\ state[Static(s)] # "COMPLETE"

C8_State ==
    /\ \A t \in Threads :
          pc[t] = "returned" => state[Static(cur[t])] = "COMPLETE" /\ result[t] # None
    /\ \A s \in Schemas :
          /\ Cardinality(On(s, ResolverPcs)) <= 1
          /\ On(s, ResolverPcs) # {} <=> state[Static(s)] = "RUNNING"

C8_Step ==
    \A t \in Threads :
        Waiting(t) => pc'[t] = "initialize" /\ cur'[t] = cur[t] /\ result'[t] = None

\* C8: the state part in every reachable state, the parking part over every step.
C8_WaitersBlock == [](C8_State) /\ [][C8_Step]_vars

\* One caller is parked on A while the resolver of A holds the fetched payload.
C8_Witness ==
    \E t1, t2 \in Threads :
        /\ Waiting(t1) /\ cur[t1] = "A"
        /\ cur[t2] = "A" /\ pc[t2] = "parse"
        /\ fetchCount["A"] = 1

\* ----------------------------------------------------------------------- C9
\* C9: a first access made from inside an async runtime works as it does from a
\* plain thread: when such a caller's access fails, it is the runtime build, the
\* store or the parse that failed (or an earlier failure that poisoned the cell).
C9_AsyncFirstAccessResolves ==
    \A t \in Threads :
        (ctx[t] = "async" /\ pc[t] = "panicked") =>
            failure[t].kind \in StoreErrors \cup {"NoSecretString", "ParseError", "RuntimeBuild", "Poisoned"}

\* ---------------------------------------------------------------------- C10
\* C10: the secret id passed to the store is the struct's declared identifier,
\* character for character, whatever module path the struct is declared under.
C10_KeyIsDeclaredName ==
    derived # None => derived = Some(declIdent)

\* A mixed-case identifier declared two modules deep has had its key derived.
C10_Witness ==
    /\ Len(declPath) = 2
    /\ declIdent = <<"a", "A">>
    /\ derived = Some(<<"a", "A">>)

\* ---------------------------------------------------------------------- C11
\* The members of a payload whose key is `k`, and the declared fields as a set.
Occurrences(p, k) == {i \in 1..Len(p) : p[i][1] = k}

FieldSet(fields) == {fields[i] : i \in 1..Len(fields)}

\* Every declared field occurs in the payload exactly once, with a string value.
Compatible(p, fields) ==
    \A f \in FieldSet(fields) :
        /\ Cardinality(Occurrences(p, f)) = 1
        /\ \A i \in Occurrences(p, f) : p[i][2].t = "string"

ValueOf(p, k) == p[CHOOSE i \in Occurrences(p, k) : TRUE][2].v

ExpectedBundle(p, fields) == [f \in FieldSet(fields) |-> ValueOf(p, f)]

Resolved == dStage = "resolved"

\* C11: when the payload holds every declared field (once) with a string value, the
\* resolution yields a bundle whose every declared field holds the payload's value
\* for that field name, and nothing else.
C11_FieldsFromPayload ==
    (Resolved /\ Compatible(dPayload[1], dFields)) =>
        /\ dOutcome[1].ok
        /\ dOutcome[1].value = ExpectedBundle(dPayload[1], dFields)

\* The documented case: {"key1":"value1","key2":"value2"} into {key1, key2}.
C11_Witness ==
    /\ Resolved
    /\ dFields = <<"key1", "key2">>
    /\ dPayload = Some(<< <<"key1", JStr("value1")>>, <<"key2", JStr("value2")>> >>)
    /\ dOutcome[1].ok
    /\ dOutcome[1].value = [key1 |-> "value1", key2 |-> "value2"]

\* ---------------------------------------------------------------------- C12
DistinctKeys(p) == \A i, j \in 1..Len(p) : p[i][1] = p[j][1] => i = j

Lacks(p, fields) == \E f \in FieldSet(fields) : Occurrences(p, f) = {}

Mismatched(p, fields) ==
    \E f \in FieldSet(fields) : \E i \in Occurrences(p, f) : p[i][2].t # "string"

\* The first declared field, in declaration order, that the payload does not hold.
FirstLacking(p, fields) ==
    fields[CHOOSE i \in 1..Len(fields) :
              /\ Occurrences(p, fields[i]) = {}
              /\ \A j \in 1..(i - 1) : Occurrences(p, fields[j]) # {}]

NoBundle == ~dOutcome[1].ok /\ dOutcome[1].value = EmptyMap

IsExtra(m, fields) == m[1] \notin FieldSet(fields)

RECURSIVE WithoutExtras(_, _)
WithoutExtras(p, fields) ==
    IF p = <<>> THEN <<>>
    ELSE IF IsExtra(Head(p), fields) THEN WithoutExtras(Tail(p), fields)
    ELSE <<Head(p)>> \o WithoutExtras(Tail(p), fields)

HasExtras(p, fields) == \E i \in 1..Len(p) : IsExtra(p[i], fields)

Handle == dStage \in {"built", "resolved"}

Busy == {"initialize"} \cup ResolverPcs

StepOrder == <<"dotenv", "config", "query", "parse", "store">>

IsPrefix(a, b) == Len(a) <= Len(b) /\ SubSeq(b, 1, Len(a)) = a

QueryFailures == StoreErrors \cup {"NoSecretString"}

\* C16: the steps of a schema's resolution are taken in the order .env and
\* configuration, query, parse, store, each at most once; the store is queried only
\* after the configuration step, and a caller whose store query failed (an error, or
\* no secret string) is dead at once and the payload of its schema is never parsed.
C16_StepsInOrder ==
    /\ \A s \in Schemas :
          /\ IsPrefix(trace[s], StepOrder)
          /\ fetchCount[s] > 0 => InSeq("config", trace[s])
          /\ parseCount[s] > 0 <=> InSeq("parse", trace[s])
          /\ fetchCount[s] > 0 <=> InSeq("query", trace[s])
    /\ \A t \in Threads :
          failure[t].kind \in QueryFailures =>
              /\ pc[t] = "panicked"
              /\ parseCount[cur[t]] = 0
              /\ trace[cur[t]] = SubSeq(StepOrder, 1, 3)

\* A ran all its steps and stored the bundle; B's store query failed and its
\* resolution stopped after the query.
C16_Witness ==
    /\ trace["A"] = StepOrder
    /\ state[Static("A")] = "COMPLETE"
    /\ trace["B"] = <<"dotenv", "config", "query">>
    /\ \E t \in Panicked("B") : failure[t] = Failure("NotFound")
    /\ parseCount["B"] = 0

\* ---------------------------------------------------------------------- C17
\* C17: once a schema's state is COMPLETE the process holds the bundle and no longer
\* holds the text of the payload.
C17_PayloadNotRetained ==
    \A s \in Schemas :
        state[Static(s)] = "COMPLETE" => value[Static(s)] # None /\ leaked[s] = {}

\* ---------------------------------------------------------------------- C18
\* What the process holds for one schema, and what a caller holds for itself.
SchemaState(s) ==
    <<state[Static(s)], init[Static(s)], value[Static(s)], fetchCount[s], parseCount[s],
      entered[s], completed[s], queried[s], leaked[s], trace[s], dotenv[s]>>

CallerState(t) == <<pc[t], cur[t], ctx[t], rt_str[t], result[t], failure[t], fast[t]>>

Untouched(s) ==
    /\ state[Static(s)] = "INCOMPLETE" /\ init[Static(s)] /\ value[Static(s)] = None
    /\ fetchCount[s] = 0 /\ parseCount[s] = 0 /\ trace[s] = <<>>

\* A step leaves alone every schema but the one the moving caller is accessing.
C18_Step ==
    \A s \in Schemas :
        (\A t \in Threads : CallerState(t)' # CallerState(t) => cur'[t] # s)
            => SchemaState(s)' = SchemaState(s)

\* C18: every step on one schema leaves the state, the bundle and the counts of the
\* other schemas as they were, and a schema that no caller has accessed is still
\* unresolved and resolvable whatever happened to the others.
C18_SchemasIndependent ==
    /\ [](\A s \in Schemas : s \notin touched => Untouched(s))
    /\ [][C18_Step]_vars

\* A failed for good on an authentication error and is poisoned; B, accessed as
\* well, holds its bundle after one fetch.
C18_Witness ==
    /\ \E t \in Panicked("A") : failure[t] = Failure("AuthError")
    /\ ~init[Static("A")] /\ state[Static("A")] = "INCOMPLETE" /\ value[Static("A")] = None
    /\ fetchCount["A"] = 1
    /\ state[Static("B")] = "COMPLETE" /\ value[Static("B")] # None
    /\ fetchCount["B"] = 1
    /\ Returned("B") # {}

\* ---------------------------------------------------------------------- C19
\* C19: a missing or unreadable .env file fails nothing: no caller ever dies of it,
\* the resolution goes on to the runtime and the store query, and a caller that
\* resolved a schema whose .env load failed dies only of what follows the load.
C19_DotenvNotFatal ==
    /\ \A t \in Threads : failure[t].kind # "DotenvError"
    /\ \A s \in Schemas :
          dotenv[s] = "err" =>
              /\ InSeq("dotenv", trace[s])
              /\ \A t \in Panicked(s) :
                    failure[t].kind \in
                        {"RuntimeBuild", "NestedRuntime", "NoSecretString", "ParseError",
                         "Poisoned"} \cup StoreErrors

\* The .env load of A failed and A resolved all the same, after one store query.
C19_Witness ==
    /\ dotenv["A"] = "err"
    /\ state[Static("A")] = "COMPLETE"
    /\ fetchCount["A"] = 1
    /\ Returned("A") # {}

====
